---- MODULE Spec2Model ----
(***************************************************************************)
(* Model of scripts/update_stats.py: the PostHog statistics aggregation    *)
(* script.  One invocation of main() checks the credentials, computes the  *)
(* five statistic families (each fetches its own event lists), loads and   *)
(* merges the previous output document and writes the new one.             *)
(*                                                                         *)
(* Encoding of Python values:                                              *)
(*   - a dict is a record; dict.get(k) is None iff k is not in DOMAIN;     *)
(*   - None, where a variable may also hold a list or a dict, is NoneV;    *)
(*     a list that may be None is wrapped as [items |-> <<...>>];          *)
(*   - a float rounded to 3 decimals is the integer number of thousandths; *)
(*   - event lists are sequences, in the order the API returned them.      *)
(***************************************************************************)
EXTENDS Integers, Sequences, FiniteSets, TLC

VARIABLES
    pc,                  \* position of main()
    creds,               \* [key, project]: the two environment variables
    challenge_stats,     \* main's local: list of challenge records
    tool_stats,          \* main's local: NoneV or [items |-> list]
    category_stats,      \* main's local: NoneV or [items |-> list]
    stage_stats,         \* main's local: NoneV or [items |-> list]
    community_stats,     \* main's local: NoneV or the 7-field object
    effectiveness_stats, \* main's local: NoneV or the object
    existing,            \* main's local: the loaded document, NoneV if none
    file,                \* config/stats.json: NoFile or the document
    exit_status,         \* -1 while running, else the process exit status
    fetched,             \* lists returned by query_posthog_events in the
                         \* most recent calculate_* call, in call order
    computed,            \* history: value calculate_challenge_stats returned
    nFetch, nRead, nWrite, \* history: network fetches / file opens for
                         \* reading / file writes issued by this invocation
    runs,                \* history: number of invocations started
    prev                 \* history: [computed, written] of the previous
                         \* invocation, NoneV before the second one

vars == <<pc, creds, challenge_stats, tool_stats, category_stats, stage_stats,
          community_stats, effectiveness_stats, existing, file, exit_status,
          fetched, computed, nFetch, nRead, nWrite, runs, prev>>

----------------------------------------------------------------------------
(* Python values *)

NoneV == [none |-> TRUE]
IsNone(x) == DOMAIN x = {"none"}
NoFile == [nofile |-> TRUE]

\* d.get(k) is truthy: present and not "" / not 0
TruthyStr(d, k) == k \in DOMAIN d /\ d[k] # ""
TruthyNum(d, k) == k \in DOMAIN d /\ d[k] # 0
TruthyBool(d, k) == k \in DOMAIN d /\ d[k]

\* d.get(k, default)
Get(d, k, default) == IF k \in DOMAIN d THEN d[k] ELSE default

\* the dict d with d[k] = v added
With(d, k, v) == [x \in DOMAIN d \cup {k} |-> IF x = k THEN v ELSE d[x]]

\* sum(s[lo..hi])
RECURSIVE SumRange(_, _, _)
SumRange(s, lo, hi) ==
    IF lo > hi THEN 0
    ELSE IF lo = hi THEN s[lo]
    ELSE LET mid == (lo + hi) \div 2
         IN SumRange(s, lo, mid) + SumRange(s, mid + 1, hi)
SumSeq(s) == SumRange(s, 1, Len(s))

\* [e["properties"][key] for e in events]
Pluck(events, key) == [j \in DOMAIN events |-> events[j].properties[key]]

\* the distinct elements of s in first-seen order (dict insertion order)
Dedupe(s) ==
    LET first == {i \in DOMAIN s : \A j \in 1..(i - 1) : s[j] # s[i]}
        IsFirst(i) == i \in first
        idx == SelectSeq([i \in DOMAIN s |-> i], IsFirst)
    IN [j \in 1..Len(idx) |-> s[idx[j]]]

Count(s, x) == Cardinality({i \in DOMAIN s : s[i] = x})

\* max(counts, key=counts.get) over the values of s: the first-seen value
\* among those that occur most often
MostCommon(s) ==
    LET ks == Dedupe(s)
        best == CHOOSE i \in DOMAIN ks :
                    /\ \A j \in DOMAIN ks : Count(s, ks[j]) <= Count(s, ks[i])
                    /\ \A j \in 1..(i - 1) : Count(s, ks[j]) < Count(s, ks[i])
    IN ks[best]

\* a rate clamped to [0, 1] (what the code does not do)
Round3Clamped(num, den) ==
    LET r == (2000 * num + den) \div (2 * den) IN IF r > 1000 THEN 1000 ELSE r
\* round(num / den, 3), in thousandths; den > 0, num >= 0.  Python rounds
\* to the nearest thousandth; a quotient exactly halfway that the float
\* holds exactly (an odd multiple of 1/16) goes to the even neighbour.
Round3(num, den) ==
    LET q == (1000 * num) \div den
        rem2 == 2 * ((1000 * num) % den)
    IN IF rem2 > den THEN q + 1
       ELSE IF rem2 < den THEN q
       ELSE IF q % 2 = 0 THEN q ELSE q + 1
\* the same for a numerator of either sign
Round3S(num, den) == IF num >= 0 THEN Round3(num, den) ELSE -Round3(-num, den)
\* int(num / den): truncation toward zero
IntAvg(num, den) == IF num >= 0 THEN num \div den ELSE -((-num) \div den)

----------------------------------------------------------------------------
(* Configuration, lines 24-53 *)

MIN_SESSIONS_FOR_TOOL == 50
MIN_USERS_FOR_TOOL == 10
MIN_USERS_FOR_STAGE == 20
MIN_DAILY_USERS == 10

CHALLENGE_IDS ==
    << "movement_7day", "morning_walks_30", "strength_training_8week",
       "stretching_14day", "steps_10k_21day", "sleep_schedule_14day",
       "evening_winddown_21", "power_naps_7day", "hydration_30day",
       "meal_prep_4week", "no_sugar_14day", "breathing_7day",
       "meditation_21day", "mindful_eating_14", "gratitude_30day",
       "gratitude_letters_7", "journal_streak_30", "morning_pages_14",
       "evening_reflection_21", "morning_routine_21", "evening_routine_14",
       "digital_detox_weekend" >>

----------------------------------------------------------------------------
(* query_posthog_events: the HTTP response is the input.  A transport or   *)
(* HTTP error (status "error") is caught and gives the empty list; a body  *)
(* without "results" gives the empty list too.                             *)

\* what a caller sees in place of a list when the exception escapes
Raised == <<[raised |-> TRUE]>>

\* a fetch without the try/except of lines 69-75
QueryPropagating(response) ==
    IF response.status = "ok" /\ "results" \in DOMAIN response
    THEN response.results
    ELSE Raised

query_posthog_events(response) ==
    IF response.status = "ok"
    THEN IF "results" \in DOMAIN response THEN response.results ELSE <<>>
    ELSE <<>>

\* an exception escaped a fetch (never the case with query_posthog_events)
HasRaised(lists) == \E i \in DOMAIN lists : lists[i] = Raised

----------------------------------------------------------------------------
(* calculate_challenge_stats, lines 100-153 *)

\* starts[challenge_id], lines 115-118
CountStarts(started_events, challenge_id) ==
    Cardinality({i \in DOMAIN started_events :
        /\ TruthyStr(started_events[i].properties, "challenge_id")
        /\ started_events[i].properties.challenge_id = challenge_id})

\* completions[challenge_id], lines 120-124
CountCompletions(completed_events, challenge_id) ==
    Cardinality({i \in DOMAIN completed_events :
        /\ TruthyStr(completed_events[i].properties, "challenge_id")
        /\ completed_events[i].properties.challenge_id = challenge_id})

\* completion_days[challenge_id], lines 125-127
CompletionDays(completed_events, challenge_id) ==
    LET Test(e) == /\ TruthyStr(e.properties, "challenge_id")
                   /\ e.properties.challenge_id = challenge_id
                   /\ TruthyNum(e.properties, "days_to_complete")
    IN Pluck(SelectSeq(completed_events, Test), "days_to_complete")

\* the record of one challenge, lines 136-148
ChallengeStat(challenge_id, total_starts, total_completions, days) ==
    LET avg_days == IF days # <<>> THEN IntAvg(SumSeq(days), Len(days)) ELSE 0
        stat == [challenge_id |-> challenge_id,
                 completion_rate |-> Round3(total_completions, total_starts),
                 total_starts |-> total_starts,
                 total_completions |-> total_completions]
    IN IF avg_days # 0
       THEN With(stat, "average_days_to_complete", avg_days)
       ELSE stat

\* lines 129-153: one record per known id with total_starts > 0, in the
\* order of CHALLENGE_IDS
RECURSIVE BuildChallengeStats(_, _, _)
BuildChallengeStats(ids, started_events, completed_events) ==
    IF ids = <<>> THEN <<>>
    ELSE LET challenge_id == Head(ids)
             total_starts == CountStarts(started_events, challenge_id)
             total_completions == CountCompletions(completed_events, challenge_id)
             rest == BuildChallengeStats(Tail(ids), started_events, completed_events)
         IN IF total_starts > 0
            THEN <<ChallengeStat(challenge_id, total_starts, total_completions,
                       CompletionDays(completed_events, challenge_id))>> \o rest
            ELSE rest

calculate_challenge_stats(started_events, completed_events) ==
    BuildChallengeStats(CHALLENGE_IDS, started_events, completed_events)

----------------------------------------------------------------------------
(* calculate_tool_stats, lines 156-271 *)

\* the events that carry a truthy tool_id, lines 176-180
WithToolId(events) ==
    LET Test(e) == TruthyStr(e.properties, "tool_id") IN SelectSeq(events, Test)

\* the keys of tool_data, in insertion order
ToolIds(events) ==
    LET evs == WithToolId(events)
    IN Dedupe([i \in DOMAIN evs |-> evs[i].properties.tool_id])

\* tool_data[tool_id] after the loop of lines 176-204
ToolData(events, tool_id) ==
    LET OfTool(e) == TruthyStr(e.properties, "tool_id")
                     /\ e.properties.tool_id = tool_id
        evs == SelectSeq(events, OfTool)
        last == evs[Len(evs)]
        HasDuration(e) == TruthyNum(e.properties, "actual_duration_seconds")
        HasMood(e) == "mood_impact" \in DOMAIN e.properties
        HasHour(e) == "hour_of_day" \in DOMAIN e.properties
    IN [sessions |-> Len(evs),
        name |-> Get(last.properties, "tool_name", tool_id),
        category |-> Get(last.properties, "category", "other"),
        users |-> {evs[i].distinct_id : i \in {j \in DOMAIN evs :
                                                 TruthyStr(evs[j], "distinct_id")}},
        completions |-> Cardinality({i \in DOMAIN evs :
                                       TruthyBool(evs[i].properties, "completed")}),
        durations |-> Pluck(SelectSeq(evs, HasDuration), "actual_duration_seconds"),
        mood_impacts |-> Pluck(SelectSeq(evs, HasMood), "mood_impact"),
        hours |-> Pluck(SelectSeq(evs, HasHour), "hour_of_day")]

\* the test with `or` in place of `and`
ReportableAny(data) ==
    data.sessions >= MIN_SESSIONS_FOR_TOOL \/ Cardinality(data.users) >= MIN_USERS_FOR_TOOL
\* the threshold test of line 209
Reportable(data) ==
    data.sessions >= MIN_SESSIONS_FOR_TOOL /\ Cardinality(data.users) >= MIN_USERS_FOR_TOOL

\* the record of one tool, lines 210-230
ToolStat(tool_id, data) ==
    LET s0 == [tool_id |-> tool_id,
               tool_name |-> data.name,
               category |-> data.category,
               total_sessions |-> data.sessions,
               total_users |-> Cardinality(data.users),
               completion_rate |-> IF data.sessions > 0
                                   THEN Round3(data.completions, data.sessions)
                                   ELSE 0]
        s1 == IF data.durations # <<>>
              THEN With(s0, "avg_session_duration",
                        IntAvg(SumSeq(data.durations), Len(data.durations)))
              ELSE s0
        s2 == IF data.mood_impacts # <<>>
              THEN With(s1, "avg_mood_impact",
                        Round3S(SumSeq(data.mood_impacts), Len(data.mood_impacts)))
              ELSE s1
    IN IF data.hours # <<>>
       THEN With(s2, "peak_usage_hour", MostCommon(data.hours))
       ELSE s2

\* lines 206-233: tool_stats before the final None conversion
BuildToolStats(events) ==
    LET ids == ToolIds(events)
        Ok(tool_id) == Reportable(ToolData(events, tool_id))
        kept == SelectSeq(ids, Ok)
    IN [j \in 1..Len(kept) |-> ToolStat(kept[j], ToolData(events, kept[j]))]

\* category_data[cat] after the loop of lines 244-253
CategoryData(events, cat) ==
    LET ids == ToolIds(events)
        InCat(tool_id) == ToolData(events, tool_id).category = cat
        tools == SelectSeq(ids, InCat)
        sess(i) == ToolData(events, tools[i]).sessions
        \* strict >: the earliest tool with the most sessions stays on top
        top == CHOOSE i \in DOMAIN tools :
                   /\ \A j \in DOMAIN tools : sess(j) <= sess(i)
                   /\ \A j \in 1..(i - 1) : sess(j) < sess(i)
        \* extend() per tool, tools in insertion order
        MoodsOf(i) == ToolData(events, tools[i]).mood_impacts
    IN [sessions |-> SumSeq([i \in DOMAIN tools |-> sess(i)]),
        completions |-> SumSeq([i \in DOMAIN tools |->
                                   ToolData(events, tools[i]).completions]),
        mood_sum |-> SumSeq([i \in DOMAIN tools |-> SumSeq(MoodsOf(i))]),
        mood_len |-> SumSeq([i \in DOMAIN tools |-> Len(MoodsOf(i))]),
        top_tool |-> tools[top],
        top_tool_name |-> ToolData(events, tools[top]).name,
        top_tool_sessions |-> sess(top)]

\* the record of one category, lines 258-267
CategoryStat(category, data) ==
    LET s0 == [category |-> category,
               most_popular_tool_id |-> data.top_tool,
               most_popular_tool_name |-> data.top_tool_name,
               total_sessions |-> data.sessions,
               avg_completion_rate |-> IF data.sessions > 0
                                       THEN Round3(data.completions, data.sessions)
                                       ELSE 0]
    IN IF data.mood_len > 0
       THEN With(s0, "avg_mood_impact", Round3S(data.mood_sum, data.mood_len))
       ELSE s0

\* lines 255-269
BuildCategoryStats(events) ==
    LET ids == ToolIds(events)
        cats == Dedupe([i \in DOMAIN ids |-> ToolData(events, ids[i]).category])
        Ok(cat) == CategoryData(events, cat).sessions >= 20
        kept == SelectSeq(cats, Ok)
    IN [j \in 1..Len(kept) |-> CategoryStat(kept[j], CategoryData(events, kept[j]))]

\* a list, or None when it is empty (lines 271, 324)
ListOrNone(list) == IF list # <<>> THEN [items |-> list] ELSE NoneV

\* the pair calculate_tool_stats returns
calculate_tool_stats(events) ==
    IF events = <<>>
    THEN <<NoneV, NoneV>>
    ELSE <<ListOrNone(BuildToolStats(events)), ListOrNone(BuildCategoryStats(events))>>

----------------------------------------------------------------------------
(* calculate_stage_stats, lines 274-324 *)

RECURSIVE Flatten(_)
Flatten(ss) == IF ss = <<>> THEN <<>> ELSE Head(ss) \o Flatten(Tail(ss))

ReachedEvent(e) == TruthyStr(e.properties, "to_stage") /\ TruthyStr(e, "distinct_id")
CompletedEvent(e) == TruthyStr(e.properties, "from_stage") /\ TruthyStr(e, "distinct_id")

\* the keys of stage_data, in insertion order (lines 296-300)
StageKeys(events) ==
    Dedupe(Flatten([i \in DOMAIN events |->
        (IF ReachedEvent(events[i]) THEN <<events[i].properties.to_stage>> ELSE <<>>)
        \o (IF CompletedEvent(events[i]) THEN <<events[i].properties.from_stage>>
            ELSE <<>>)]))

\* stage_data[stage] after the loop of lines 290-303
StageData(events, stage) ==
    LET HasDays(e) == /\ CompletedEvent(e)
                      /\ e.properties.from_stage = stage
                      /\ TruthyNum(e.properties, "days_in_previous_stage")
    IN [users_reached |-> {events[i].distinct_id : i \in {j \in DOMAIN events :
                              /\ ReachedEvent(events[j])
                              /\ events[j].properties.to_stage = stage}},
        users_completed |-> {events[i].distinct_id : i \in {j \in DOMAIN events :
                              /\ CompletedEvent(events[j])
                              /\ events[j].properties.from_stage = stage}},
        days_in_stage |-> Pluck(SelectSeq(events, HasDays), "days_in_previous_stage")]

\* the record of one stage, lines 308-319
StageStat(stage, data) ==
    [stage |-> stage,
     total_users_reached |-> Cardinality(data.users_reached),
     total_users_completed |-> Cardinality(data.users_completed),
     top_tool_ids |-> <<>>,
     top_challenge_ids |-> <<>>,
     avg_days_in_stage |-> IF data.days_in_stage # <<>>
                           THEN IntAvg(SumSeq(data.days_in_stage), Len(data.days_in_stage))
                           ELSE 14]

calculate_stage_stats(events) ==
    IF events = <<>>
    THEN NoneV
    ELSE LET keys == StageKeys(events)
             Ok(stage) == Cardinality(StageData(events, stage).users_reached)
                              >= MIN_USERS_FOR_STAGE
             kept == SelectSeq(keys, Ok)
         IN ListOrNone([j \in 1..Len(kept) |->
                           StageStat(kept[j], StageData(events, kept[j]))])

----------------------------------------------------------------------------
(* calculate_community_stats, lines 327-382 *)

\* the set built by lines 335-346
Users(events) ==
    {events[i].distinct_id : i \in {j \in DOMAIN events : TruthyStr(events[j], "distinct_id")}}

\* the minutes of the summed durations: sum(duration) // 60
MeditationMinutesOfTotal(today_events) ==
    LET IsMeditation(e) == "category" \in DOMAIN e.properties
                           /\ e.properties.category = "meditation"
        sessions == SelectSeq(today_events, IsMeditation)
    IN SumSeq([j \in DOMAIN sessions |->
                  Get(sessions[j].properties, "actual_duration_seconds", 0)]) \div 60
\* lines 369-374: the loop adds duration // 60 for each meditation session
MeditationMinutes(today_events) ==
    LET IsMeditation(e) == "category" \in DOMAIN e.properties
                           /\ e.properties.category = "meditation"
        sessions == SelectSeq(today_events, IsMeditation)
    IN SumSeq([j \in DOMAIN sessions |->
                  Get(sessions[j].properties, "actual_duration_seconds", 0) \div 60])

\* the gate with the threshold itself excluded
SufficientActivityOff(active_today) == active_today > MIN_DAILY_USERS
\* the gate of line 355
SufficientActivity(active_today) == ~(active_today < MIN_DAILY_USERS)

\* today_journals is fetched (line 377) only when the gate of line 355 passed
calculate_community_stats(today_events, week_events, today_challenges, week_challenges, today_milestones, today_journals) ==
    LET active_today == Cardinality(Users(today_events))
    IN IF ~SufficientActivity(active_today)
       THEN NoneV
       ELSE [active_users_today |-> active_today,
             active_users_this_week |-> Cardinality(Users(week_events)),
             challenges_completed_today |-> Len(today_challenges),
             challenges_completed_this_week |-> Len(week_challenges),
             milestones_hit_today |-> Len(today_milestones),
             total_meditation_minutes_today |-> MeditationMinutes(today_events),
             total_journal_entries_today |-> Len(today_journals)]

----------------------------------------------------------------------------
(* calculate_effectiveness_stats, lines 385-457 *)

\* mood_by_tool[tool_id], lines 391-399
MoodByTool(events, tool_id) ==
    LET Test(e) == /\ TruthyStr(e.properties, "tool_id")
                   /\ e.properties.tool_id = tool_id
                   /\ "mood_impact" \in DOMAIN e.properties
    IN Pluck(SelectSeq(events, Test), "mood_impact")

\* the keys of mood_by_tool
MoodTools(events) ==
    {events[i].properties.tool_id : i \in {j \in DOMAIN events :
        /\ TruthyStr(events[j].properties, "tool_id")
        /\ "mood_impact" \in DOMAIN events[j].properties}}

\* the test without the sign of the average
IncludedAnyAverage(impacts) == Len(impacts) >= 20
\* the test of lines 404-406: enough samples and a positive average
\* (sum / len > 0 iff sum > 0, len being positive)
Included(impacts) == Len(impacts) >= 20 /\ SumSeq(impacts) > 0

\* mood_improvement, lines 402-407: a dict from tool id to rounded average
MoodImprovement(events) ==
    LET tools == {t \in MoodTools(events) : Included(MoodByTool(events, t))}
    IN [t \in tools |-> Round3S(SumSeq(MoodByTool(events, t)),
                                Len(MoodByTool(events, t)))]

\* lines 412-457; streak_events is fetched only when mood_improvement is
\* not empty
calculate_effectiveness_stats(events, streak_events) ==
    LET mood_improvement == MoodImprovement(events)
        streaks == [i \in DOMAIN streak_events |->
                       Get(streak_events[i].properties, "streak_days", 0)]
        HasHour(e) == "hour_of_day" \in DOMAIN e.properties
        hours == Pluck(SelectSeq(events, HasHour), "hour_of_day")
        weekend_count == Cardinality({i \in DOMAIN events :
                             TruthyBool(events[i].properties, "is_weekend")})
        weekday_count == Len(events) - weekend_count
    IN IF DOMAIN mood_improvement = {}
       THEN NoneV
       ELSE [mood_improvement_by_tool |-> mood_improvement,
             streak_retention |->
                 [avg_streak_length |-> IF streaks # <<>>
                                        THEN IntAvg(SumSeq(streaks), Len(streaks))
                                        ELSE 7,
                  day_7_retention |-> 500,
                  day_30_retention |-> 200],
             engagement_patterns |->
                 [most_active_hour |-> IF hours # <<>> THEN MostCommon(hours) ELSE 12,
                  weekend_vs_weekday_ratio |-> IF weekday_count > 0
                                               THEN Round3(weekend_count, weekday_count)
                                               ELSE 600,
                  peak_morning_tool |-> NoneV,
                  peak_afternoon_tool |-> NoneV,
                  peak_evening_tool |-> NoneV]]

----------------------------------------------------------------------------
(* main, lines 460-520 *)

\* the test with `and` in place of `or`
CredentialsMissingBoth(environ) ==
    ~TruthyStr(environ, "POSTHOG_API_KEY") /\ ~TruthyStr(environ, "POSTHOG_PROJECT_ID")
\* the test of line 461
CredentialsMissing(environ) ==
    ~TruthyStr(environ, "POSTHOG_API_KEY") \/ ~TruthyStr(environ, "POSTHOG_PROJECT_ID")

Ids(stats) == {stats[i].challenge_id : i \in DOMAIN stats}

\* a merge that appends every old record
MergeAppendAll(new_stats, old_stats) == new_stats \o old_stats
\* a merge that keeps the old records whose id the new list has
MergeInverted(new_stats, old_stats) ==
    LET existing_ids == Ids(new_stats)
        Present(old_stat) == old_stat.challenge_id \in existing_ids
    IN new_stats \o SelectSeq(old_stats, Present)
\* lines 484-487: the old records whose id the new list lacks are appended
Merge(new_stats, old_stats) ==
    LET existing_ids == Ids(new_stats)
        Absent(old_stat) == old_stat.challenge_id \notin existing_ids
    IN new_stats \o SelectSeq(old_stats, Absent)

\* lines 482-487: the merge is skipped when the new list is empty
MergeWithExisting(new_stats, doc) ==
    IF new_stats # <<>>
    THEN Merge(new_stats, Get(doc, "challenge_stats", <<>>))
    ELSE new_stats

\* lines 492-508
Output(challenge, tool, category, stage, community, effectiveness, now) ==
    [challenge_stats |-> challenge,
     path_stats |-> NoneV,
     tool_stats |-> tool,
     tool_category_stats |-> category,
     stage_stats |-> stage,
     community_stats |-> community,
     effectiveness_stats |-> effectiveness,
     thresholds |-> [min_sessions_for_tool_stats |-> MIN_SESSIONS_FOR_TOOL,
                     min_users_for_tool_stats |-> MIN_USERS_FOR_TOOL,
                     min_users_for_stage_stats |-> MIN_USERS_FOR_STAGE,
                     min_daily_users_for_community |-> MIN_DAILY_USERS,
                     min_completions_for_challenge |-> 5],
     last_updated |-> now]

\* the fetches issued before main() reaches a position when every one of
\* them failed, and the lists the last calculate_* call then got
FetchesBefore(at) ==
    CASE at = "tool" -> 2
      [] at = "stage" -> 3
      [] at = "community" -> 4
      [] at = "effectiveness" -> 9
      [] OTHER -> 0
FetchedBefore(at) ==
    CASE at = "tool" -> <<<<>>, <<>>>>
      [] at = "stage" -> <<<<>>>>
      [] at = "community" -> <<<<>>>>
      [] at = "effectiveness" -> <<<<>>, <<>>, <<>>, <<>>, <<>>>>
      [] OTHER -> <<>>

\* the values main's locals hold before they are assigned (and after
\* calculate_* calls whose fetches all failed)
Fresh(files, environs, at) ==
    /\ pc = at
    /\ creds \in environs
    /\ file \in files
    /\ challenge_stats = <<>>
    /\ tool_stats = NoneV
    /\ category_stats = NoneV
    /\ stage_stats = NoneV
    /\ community_stats = NoneV
    /\ effectiveness_stats = NoneV
    /\ existing = NoneV
    /\ exit_status = -1
    /\ fetched = FetchedBefore(at)
    /\ computed = <<>>
    /\ nFetch = FetchesBefore(at) /\ nRead = 0 /\ nWrite = 0
    /\ runs = 1
    /\ prev = NoneV

\* lines 461-463
CheckCredentials ==
    /\ pc = "start"
    /\ IF CredentialsMissing(creds)
       THEN pc' = "exited" /\ exit_status' = 1
       ELSE pc' = "challenge" /\ UNCHANGED exit_status
    /\ UNCHANGED <<creds, challenge_stats, tool_stats, category_stats, stage_stats,
                   community_stats, effectiveness_stats, existing, file, fetched,
                   computed, nFetch, nRead, nWrite, runs, prev>>

\* an exception that escapes a fetch ends the process with a traceback
Crash ==
    /\ pc' = "crashed"
    /\ exit_status' = 1
    /\ UNCHANGED <<challenge_stats, tool_stats, category_stats, stage_stats,
                   community_stats, effectiveness_stats, computed, fetched>>

\* line 470
CalculateChallengeStats(Started, Completed) ==
    /\ pc = "challenge"
    /\ \E r1 \in Started, r2 \in Completed :
         LET started_events == query_posthog_events(r1)
             completed_events == query_posthog_events(r2)
         IN IF HasRaised(<<started_events, completed_events>>)
            THEN Crash
            ELSE /\ challenge_stats' =
                        calculate_challenge_stats(started_events, completed_events)
                 /\ computed' = challenge_stats'
                 /\ fetched' = <<started_events, completed_events>>
                 /\ pc' = "tool"
                 /\ UNCHANGED <<tool_stats, category_stats, stage_stats,
                                community_stats, effectiveness_stats, exit_status>>
    /\ nFetch' = nFetch + 2
    /\ UNCHANGED <<creds, existing, file, nRead, nWrite, runs, prev>>

\* line 471
CalculateToolStats(Sessions) ==
    /\ pc = "tool"
    /\ \E r \in Sessions :
         LET events == query_posthog_events(r)
         IN IF HasRaised(<<events>>)
            THEN Crash
            ELSE /\ tool_stats' = calculate_tool_stats(events)[1]
                 /\ category_stats' = calculate_tool_stats(events)[2]
                 /\ fetched' = <<events>>
                 /\ pc' = "stage"
                 /\ UNCHANGED <<challenge_stats, stage_stats, community_stats,
                                effectiveness_stats, computed, exit_status>>
    /\ nFetch' = nFetch + 1
    /\ UNCHANGED <<creds, existing, file, nRead, nWrite, runs, prev>>

\* line 472
CalculateStageStats(Advancements) ==
    /\ pc = "stage"
    /\ \E r \in Advancements :
         LET events == query_posthog_events(r)
         IN IF HasRaised(<<events>>)
            THEN Crash
            ELSE /\ stage_stats' = calculate_stage_stats(events)
                 /\ fetched' = <<events>>
                 /\ pc' = "community"
                 /\ UNCHANGED <<challenge_stats, tool_stats, category_stats,
                                community_stats, effectiveness_stats, computed,
                                exit_status>>
    /\ nFetch' = nFetch + 1
    /\ UNCHANGED <<creds, existing, file, nRead, nWrite, runs, prev>>

\* line 473: five fetches, and a sixth (the journal entries) only when the
\* activity gate passed
CalculateCommunityStats(Today, Week, TodayCh, WeekCh, Milestones, Journals) ==
    /\ pc = "community"
    /\ \E r1 \in Today, r2 \in Week, r3 \in TodayCh, r4 \in WeekCh, r5 \in Milestones :
         LET today_events == query_posthog_events(r1)
             week_events == query_posthog_events(r2)
             today_challenges == query_posthog_events(r3)
             week_challenges == query_posthog_events(r4)
             today_milestones == query_posthog_events(r5)
             first == <<today_events, week_events, today_challenges,
                        week_challenges, today_milestones>>
         IN IF HasRaised(first)
            THEN Crash /\ nFetch' = nFetch + 5
            ELSE IF ~SufficientActivity(Cardinality(Users(today_events)))
            THEN /\ community_stats' = calculate_community_stats(today_events,
                        week_events, today_challenges, week_challenges,
                        today_milestones, <<>>)
                 /\ fetched' = first
                 /\ nFetch' = nFetch + 5
                 /\ pc' = "effectiveness"
                 /\ UNCHANGED <<challenge_stats, tool_stats, category_stats,
                                stage_stats, effectiveness_stats, computed,
                                exit_status>>
            ELSE \E r6 \in Journals :
                 LET today_journals == query_posthog_events(r6)
                 IN /\ nFetch' = nFetch + 6
                    /\ IF HasRaised(<<today_journals>>)
                       THEN Crash
                       ELSE /\ community_stats' = calculate_community_stats(
                                   today_events, week_events, today_challenges,
                                   week_challenges, today_milestones, today_journals)
                            /\ fetched' = Append(first, today_journals)
                            /\ pc' = "effectiveness"
                            /\ UNCHANGED <<challenge_stats, tool_stats,
                                           category_stats, stage_stats,
                                           effectiveness_stats, computed,
                                           exit_status>>
    /\ UNCHANGED <<creds, existing, file, nRead, nWrite, runs, prev>>

\* line 474: one fetch, and a second (the streak milestones) only when the
\* mood-improvement map is not empty
CalculateEffectivenessStats(Sessions, Streaks) ==
    /\ pc = "effectiveness"
    /\ \E r1 \in Sessions :
         LET events == query_posthog_events(r1)
         IN IF HasRaised(<<events>>)
            THEN Crash /\ nFetch' = nFetch + 1
            ELSE IF DOMAIN MoodImprovement(events) = {}
            THEN /\ effectiveness_stats' = calculate_effectiveness_stats(events, <<>>)
                 /\ fetched' = <<events>>
                 /\ nFetch' = nFetch + 1
                 /\ pc' = "load"
                 /\ UNCHANGED <<challenge_stats, tool_stats, category_stats,
                                stage_stats, community_stats, computed, exit_status>>
            ELSE \E r2 \in Streaks :
                 LET streak_events == query_posthog_events(r2)
                 IN /\ nFetch' = nFetch + 2
                    /\ IF HasRaised(<<streak_events>>)
                       THEN Crash
                       ELSE /\ effectiveness_stats' =
                                   calculate_effectiveness_stats(events, streak_events)
                            /\ fetched' = <<events, streak_events>>
                            /\ pc' = "load"
                            /\ UNCHANGED <<challenge_stats, tool_stats,
                                           category_stats, stage_stats,
                                           community_stats, computed, exit_status>>
    /\ UNCHANGED <<creds, existing, file, nRead, nWrite, runs, prev>>

\* lines 476-489: open and parse the previous document, merge; a missing
\* file is not an error
LoadAndMerge ==
    /\ pc = "load"
    /\ nRead' = nRead + 1
    /\ IF file = NoFile
       THEN UNCHANGED <<existing, challenge_stats>>
       ELSE /\ existing' = file
            /\ challenge_stats' = MergeWithExisting(challenge_stats, file)
    /\ pc' = "write"
    /\ UNCHANGED <<creds, tool_stats, category_stats, stage_stats, community_stats,
                   effectiveness_stats, file, exit_status, fetched, computed,
                   nFetch, nWrite, runs, prev>>

\* lines 491-512; the clock gives last_updated
WriteOutput(Clock) ==
    /\ pc = "write"
    /\ \E now \in Clock :
         file' = Output(challenge_stats, tool_stats, category_stats, stage_stats,
                        community_stats, effectiveness_stats, now)
    /\ nWrite' = nWrite + 1
    /\ exit_status' = 0
    /\ pc' = "done"
    /\ UNCHANGED <<creds, challenge_stats, tool_stats, category_stats, stage_stats,
                   community_stats, effectiveness_stats, existing, fetched,
                   computed, nFetch, nRead, runs, prev>>

\* the next scheduled invocation of the script: a new process, the file stays
NextRun(MaxInvocations) ==
    /\ pc = "done"
    /\ runs < MaxInvocations
    /\ runs' = runs + 1
    /\ prev' = [computed |-> computed, written |-> file.challenge_stats]
    /\ pc' = "start"
    /\ challenge_stats' = <<>>
    /\ tool_stats' = NoneV
    /\ category_stats' = NoneV
    /\ stage_stats' = NoneV
    /\ community_stats' = NoneV
    /\ effectiveness_stats' = NoneV
    /\ existing' = NoneV
    /\ exit_status' = -1
    /\ fetched' = <<>>
    /\ computed' = <<>>
    /\ nFetch' = 0 /\ nRead' = 0 /\ nWrite' = 0
    /\ UNCHANGED <<creds, file>>

----------------------------------------------------------------------------
(* Inputs: the HTTP responses, the environment and the previous documents  *)

MaxCount == 3          \* small numbers of events per challenge
BackfillStarts == 3000 \* a large number of starts (the API returns <= 10000)
Margin == 2            \* how far around each threshold the inputs range
MaxRuns == 2           \* invocations in a sequence of runs

Err == [status |-> "error"]
NoResults == [status |-> "ok"]
Ok(list) == [status |-> "ok", results |-> list]

Event(distinct_id, properties) == [distinct_id |-> distinct_id, properties |-> properties]
Anonymous(properties) == [properties |-> properties]
Repeat(e, n) == [i \in 1..n |-> e]
User(i) == ToString(i)

Environs ==
    { [PATH |-> "/usr/bin"],
      [PATH |-> "/usr/bin", POSTHOG_API_KEY |-> "phx_key"],
      [PATH |-> "/usr/bin", POSTHOG_PROJECT_ID |-> "12345"],
      [PATH |-> "/usr/bin", POSTHOG_API_KEY |-> "", POSTHOG_PROJECT_ID |-> "12345"],
      [PATH |-> "/usr/bin", POSTHOG_API_KEY |-> "phx_key", POSTHOG_PROJECT_ID |-> "12345"] }
GoodEnviron ==
    [PATH |-> "/usr/bin", POSTHOG_API_KEY |-> "phx_key", POSTHOG_PROJECT_ID |-> "12345"]

Clock == {"2026-01-01T06:00:00Z", "2026-01-02T06:00:00Z"}

\* challenge events
Started(challenge_id) == Event("1", [challenge_id |-> challenge_id])
StartedNoId == Event("1", [source |-> "ios"])
Completed(challenge_id) == Event("1", [challenge_id |-> challenge_id])
CompletedIn(challenge_id, days) ==
    Event("1", [challenge_id |-> challenge_id, days_to_complete |-> days])

Counts == (0..MaxCount) \cup {BackfillStarts, BackfillStarts + 1}

StartedRich ==
    {Err} \cup
    { Ok(Repeat(Started("movement_7day"), a) \o <<Started("retired_challenge"),
         StartedNoId, Started("")>> \o Repeat(Started("meditation_21day"), b)) :
      a \in Counts, b \in 0..1 }
CompletedRich ==
    {Err} \cup
    { Ok(Repeat(Completed("movement_7day"), a) \o Repeat(CompletedIn("movement_7day", d), e)
         \o Repeat(CompletedIn("meditation_21day", 21), b)
         \o <<CompletedIn("retired_challenge", 3)>>) :
      a \in Counts, b \in 0..1, d \in {0, 7}, e \in {0, 2} }

StartedSmall ==
    { Err,
      Ok(<<Started("movement_7day"), Started("meditation_21day"), Started("movement_7day")>>),
      Ok(<<Started("meditation_21day"), StartedNoId>>) }
CompletedSmall ==
    { Err,
      Ok(<<CompletedIn("movement_7day", 7), Completed("movement_7day"),
           CompletedIn("movement_7day", 8)>>) }

\* previous documents: written by an earlier run, so the ids are unique
OldStat(challenge_id, starts, completions) ==
    [challenge_id |-> challenge_id, completion_rate |-> Round3(completions, starts),
     total_starts |-> starts, total_completions |-> completions]
PriorDoc(stats) == Output(stats, NoneV, NoneV, NoneV, NoneV, NoneV, "2025-12-31T06:00:00Z")
PriorFiles ==
    { NoFile,
      PriorDoc(<<>>),
      PriorDoc(<<OldStat("movement_7day", 10, 4), OldStat("hydration_30day", 8, 8)>>),
      PriorDoc(<<OldStat("retired_challenge", 5, 1)>>),
      [last_updated |-> "2025-12-31T06:00:00Z"] }
\* a hand-edited document may repeat an id
PriorFilesAny ==
    PriorFiles \cup
    { PriorDoc(<<OldStat("hydration_30day", 8, 8), OldStat("hydration_30day", 9, 1)>>) }

\* tool sessions: n sessions of one tool by u actors in turn, the first
\* `done` of them completed
ToolSessions(tool_id, category, n, u, done) ==
    [i \in 1..n |->
        Event(User(((i - 1) % u) + 1),
              [tool_id |-> tool_id, tool_name |-> tool_id, category |-> category,
               completed |-> (i <= done),
               actual_duration_seconds |-> 60 * (i % 3),
               mood_impact |-> (i % 3) - 1,
               hour_of_day |-> 7 + (i % 2)])]
AnonymousSession(tool_id) == Anonymous([tool_id |-> tool_id, completed |-> TRUE])
NoToolSession == Event("1", [category |-> "breathing", completed |-> TRUE])

NearSessions == (MIN_SESSIONS_FOR_TOOL - Margin)..(MIN_SESSIONS_FOR_TOOL + Margin)
NearUsers == ((MIN_USERS_FOR_TOOL - Margin)..(MIN_USERS_FOR_TOOL + Margin))
                 \cup {MIN_USERS_FOR_TOOL + 5}

SessionsRich ==
    {Err, NoResults, Ok(<<>>)} \cup
    { Ok(ToolSessions("box_breathing", "breathing", n, u, done)
         \o Repeat(AnonymousSession("box_breathing"), k)
         \o <<NoToolSession>>
         \o (IF other THEN ToolSessions("body_scan", "meditation",
                               MIN_SESSIONS_FOR_TOOL, MIN_USERS_FOR_TOOL, 0)
             ELSE <<>>)) :
      n \in NearSessions,
      u \in NearUsers, done \in {0, MIN_SESSIONS_FOR_TOOL - Margin},
      k \in {0, 1}, other \in BOOLEAN }

SessionsSmall ==
    { Err,
      Ok(ToolSessions("box_breathing", "breathing", MIN_SESSIONS_FOR_TOOL,
                      MIN_USERS_FOR_TOOL, 30)
         \o ToolSessions("body_scan", "meditation", MIN_SESSIONS_FOR_TOOL + 1,
                         MIN_USERS_FOR_TOOL, 10)
         \o ToolSessions("box_breathing", "breathing", 2, 1, 2)) }

\* stage advancements: u actors move from one stage to the next
Advancements(from_stage, to_stage, u, days) ==
    [i \in 1..u |->
        Event(User(i), [from_stage |-> from_stage, to_stage |-> to_stage,
                        days_in_previous_stage |-> days])]
FirstStage(to_stage, u) ==
    [i \in 1..u |-> Event(User(i), [to_stage |-> to_stage])]

AdvancementsSmall ==
    { Err,
      Ok(FirstStage("awareness", MIN_USERS_FOR_STAGE)
         \o Advancements("awareness", "practice", MIN_USERS_FOR_STAGE, 14)
         \o Advancements("practice", "mastery", MIN_USERS_FOR_STAGE - 1, 30)) }

\* today's sessions: u actors with one session each, k anonymous sessions,
\* and the meditation sessions of the given durations
TodaySessions(u, k, durations) ==
    [i \in 1..u |-> Event(User(i), [tool_id |-> "box_breathing", category |-> "breathing",
                                   actual_duration_seconds |-> 200])]
    \o Repeat(AnonymousSession("box_breathing"), k)
    \o [i \in DOMAIN durations |->
           Event(User(1), [tool_id |-> "body_scan", category |-> "meditation",
                           actual_duration_seconds |-> durations[i]])]
    \o <<Event(User(1), [tool_id |-> "body_scan", category |-> "meditation"])>>

NearDaily == (MIN_DAILY_USERS - Margin)..(MIN_DAILY_USERS + Margin)
DurationLists == {<<>>, <<59>>, <<120>>, <<90, 90>>, <<30, 30, 30>>, <<600, 61>>}

TodayRich ==
    {Err} \cup {Ok(TodaySessions(u, k, d)) : u \in NearDaily, k \in {0, 3},
                                              d \in DurationLists}
TodaySmall == {Err, Ok(TodaySessions(MIN_DAILY_USERS, 0, <<90, 90>>))}
WeekSmall == {Err, Ok(TodaySessions(MIN_DAILY_USERS + 1, 1, <<>>))}
ChallengesSmall == {Err, Ok(<<CompletedIn("movement_7day", 7)>>)}
MilestonesSmall == {Err, Ok(<<Event("1", [challenge_id |-> "movement_7day", day |-> 3])>>)}
JournalsSmall == {Err, Ok(<<Event("1", [words |-> 120]), Event("1", [words |-> 80])>>)}

\* sessions with mood samples: k samples of one tool, following a pattern
MoodOf(pattern, i) ==
    CASE pattern = "up" -> 1
      [] pattern = "down" -> -1
      [] pattern = "flat" -> 0
      [] pattern = "mixed" -> IF i % 2 = 1 THEN 1 ELSE -1
      [] pattern = "slightly_up" -> IF i = 1 THEN 1 ELSE 0
MoodSessions(tool_id, k, pattern) ==
    [i \in 1..k |-> Event(User(i), [tool_id |-> tool_id, mood_impact |-> MoodOf(pattern, i),
                                   is_weekend |-> (i % 4 = 0), hour_of_day |-> 20])]
NoMoodSession(tool_id) == Event("1", [tool_id |-> tool_id, is_weekend |-> TRUE])

NearSamples == (20 - Margin)..(20 + Margin)
Patterns == {"up", "down", "flat", "mixed", "slightly_up"}

MoodRich ==
    {Err} \cup
    { Ok(MoodSessions("box_breathing", k, p)
         \o Repeat(NoMoodSession("box_breathing"), m)
         \o MoodSessions("body_scan", k2, p2)) :
      k \in NearSamples, p \in Patterns, m \in {0, Margin},
      k2 \in {0, 20}, p2 \in {"up", "down"} }
MoodSmall ==
    { Err,
      Ok(MoodSessions("box_breathing", 20, "up") \o MoodSessions("body_scan", 20, "down")) }
StreaksSmall ==
    { Err,
      Ok(<<Event("1", [streak_days |-> 7]), Event("2", [streak_days |-> 30]),
           Event("3", [milestone |-> "first"])>>) }

----------------------------------------------------------------------------
(* Specifications *)

\* one invocation of main(), every fetch failing or not
Init == Fresh(PriorFiles, Environs, "start")
Next ==
    \/ CheckCredentials
    \/ CalculateChallengeStats(StartedSmall, CompletedSmall)
    \/ CalculateToolStats(SessionsSmall)
    \/ CalculateStageStats(AdvancementsSmall)
    \/ CalculateCommunityStats(TodaySmall, WeekSmall, ChallengesSmall, ChallengesSmall,
                               MilestonesSmall, JournalsSmall)
    \/ CalculateEffectivenessStats(MoodSmall, StreaksSmall)
    \/ LoadAndMerge
    \/ WriteOutput(Clock)
Spec == Init /\ [][Next]_vars

\* a sequence of scheduled invocations over the same file
InitRuns == Fresh(PriorFilesAny, {GoodEnviron}, "start")
NextRuns ==
    \/ CheckCredentials
    \/ CalculateChallengeStats(StartedSmall, CompletedSmall)
    \/ CalculateToolStats({Err})
    \/ CalculateStageStats({Err})
    \/ CalculateCommunityStats({Err}, {Err}, {Err}, {Err}, {Err}, {Err})
    \/ CalculateEffectivenessStats({Err}, {Err})
    \/ LoadAndMerge
    \/ WriteOutput({"2026-01-01T06:00:00Z"})
    \/ NextRun(MaxRuns)
SpecRuns == InitRuns /\ [][NextRuns]_vars

\* calculate_challenge_stats on its own, over many event lists
InitChallenge == Fresh({NoFile}, {GoodEnviron}, "challenge")
NextChallenge == CalculateChallengeStats(StartedRich, CompletedRich)
SpecChallenge == InitChallenge /\ [][NextChallenge]_vars

\* calculate_tool_stats on its own
InitTool == Fresh({NoFile}, {GoodEnviron}, "tool")
NextTool == CalculateToolStats(SessionsRich)
SpecTool == InitTool /\ [][NextTool]_vars

\* calculate_community_stats on its own
InitCommunity == Fresh({NoFile}, {GoodEnviron}, "community")
NextCommunity ==
    CalculateCommunityStats(TodayRich, WeekSmall, ChallengesSmall, {Err},
                            {Err}, JournalsSmall)
SpecCommunity == InitCommunity /\ [][NextCommunity]_vars

\* calculate_effectiveness_stats on its own
InitEffectiveness == Fresh({NoFile}, {GoodEnviron}, "effectiveness")
NextEffectiveness == CalculateEffectivenessStats(MoodRich, StreaksSmall)
SpecEffectiveness == InitEffectiveness /\ [][NextEffectiveness]_vars

----------------------------------------------------------------------------
(* Properties *)

Unique(list, key) == \A i, j \in DOMAIN list : list[i][key] = list[j][key] => i = j
ItemsOf(x) == IF IsNone(x) THEN <<>> ELSE x.items
FamilyKeys == {"challenge_stats", "path_stats", "tool_stats", "tool_category_stats",
               "stage_stats", "community_stats", "effectiveness_stats",
               "thresholds", "last_updated"}

\* C1: the written challenge list is the new list followed by exactly the
\* records of the previous document whose id the new list lacks, also when
\* the new list is empty.
C1_CarryForward ==
    (pc = "done" /\ ~IsNone(existing)) =>
        LET P == Get(existing, "challenge_stats", <<>>)
            N == computed
            W == file.challenge_stats
            carried == {j \in DOMAIN P : P[j].challenge_id \notin Ids(N)}
        IN /\ Len(W) = Len(N) + Cardinality(carried)
           /\ \A i \in DOMAIN N : W[i] = N[i]
           /\ \A j \in carried : \E k \in (Len(N) + 1)..Len(W) : W[k] = P[j]

\* C2: an invocation that computes the same new list as the previous one,
\* over the document the previous one wrote, writes the same challenge list
\* again: merge(N, merge(N, P)) = merge(N, P).
C2_MergeIdempotent ==
    (pc = "done" /\ ~IsNone(prev) /\ computed = prev.computed)
        => file.challenge_stats = prev.written
C2_Witness ==
    /\ pc = "done" /\ ~IsNone(prev) /\ computed = prev.computed
    /\ computed # <<>>
    /\ Len(file.challenge_stats) > Len(computed)

\* C3: in every document the identifiers are unique within each family.
C3_UniqueIds ==
    file # NoFile =>
        /\ Unique(Get(file, "challenge_stats", <<>>), "challenge_id")
        /\ Unique(ItemsOf(Get(file, "tool_stats", NoneV)), "tool_id")
        /\ Unique(ItemsOf(Get(file, "tool_category_stats", NoneV)), "category")
        /\ Unique(ItemsOf(Get(file, "stage_stats", NoneV)), "stage")
C3_Witness ==
    /\ pc = "done" /\ ~IsNone(existing)
    /\ Len(file.challenge_stats) > Len(computed)
    /\ Ids(computed) \cap Ids(Get(existing, "challenge_stats", <<>>)) # {}
    /\ Len(ItemsOf(file.tool_stats)) >= 2
    /\ Len(ItemsOf(file.tool_category_stats)) >= 2
    /\ Len(ItemsOf(file.stage_stats)) >= 2

\* the sessions and actors of a tool, counted on the fetched list
SessionsOf(events, t) ==
    Cardinality({i \in DOMAIN events : /\ "tool_id" \in DOMAIN events[i].properties
                                       /\ events[i].properties.tool_id = t})
ActorsOf(events, t) ==
    Cardinality({events[i].distinct_id : i \in {j \in DOMAIN events :
        /\ "tool_id" \in DOMAIN events[j].properties
        /\ events[j].properties.tool_id = t
        /\ "distinct_id" \in DOMAIN events[j]
        /\ events[j].distinct_id # ""}})
ToolsIn(events) ==
    {events[i].properties.tool_id : i \in {j \in DOMAIN events :
        "tool_id" \in DOMAIN events[j].properties /\ events[j].properties.tool_id # ""}}
Listed == {ItemsOf(tool_stats)[i].tool_id : i \in DOMAIN ItemsOf(tool_stats)}

\* C4: a tool has a record in tool_stats iff it has >= 50 sessions and
\* >= 10 distinct actors.
C4_ToolThreshold ==
    pc = "stage" =>
        Listed = {t \in ToolsIn(fetched[1]) :
                     SessionsOf(fetched[1], t) >= 50 /\ ActorsOf(fetched[1], t) >= 10}
C4_Witness ==
    /\ pc = "stage"
    /\ Listed # {}
    /\ \E t \in ToolsIn(fetched[1]) :
         SessionsOf(fetched[1], t) = 49 /\ ActorsOf(fetched[1], t) = 15 /\ t \notin Listed

ActorsToday ==
    Cardinality({fetched[1][i].distinct_id : i \in {j \in DOMAIN fetched[1] :
        "distinct_id" \in DOMAIN fetched[1][j] /\ fetched[1][j].distinct_id # ""}})

\* C5: community stats is None when today's distinct actors are < 10 and
\* the object with its seven counts otherwise.
C5_CommunityGate ==
    pc = "effectiveness" =>
        IF ActorsToday < 10
        THEN IsNone(community_stats)
        ELSE DOMAIN community_stats =
                 {"active_users_today", "active_users_this_week",
                  "challenges_completed_today", "challenges_completed_this_week",
                  "milestones_hit_today", "total_meditation_minutes_today",
                  "total_journal_entries_today"}
C5_Witness ==
    pc = "effectiveness" /\ ActorsToday = 10 /\ ~IsNone(community_stats)
       /\ community_stats.active_users_today = 10

\* the mood samples of a tool, read off the fetched list
SamplesOf(events, t) ==
    LET Test(e) == /\ "tool_id" \in DOMAIN e.properties
                   /\ e.properties.tool_id = t
                   /\ "mood_impact" \in DOMAIN e.properties
    IN SelectSeq(events, Test)
SampleSum(events, t) ==
    SumSeq([i \in DOMAIN SamplesOf(events, t) |-> SamplesOf(events, t)[i].properties.mood_impact])

\* C6: every tool in mood_improvement_by_tool has >= 20 samples and a
\* positive average (sum of samples > 0).
C6_MoodMap ==
    (pc = "load" /\ ~IsNone(effectiveness_stats)) =>
        \A t \in DOMAIN effectiveness_stats.mood_improvement_by_tool :
            /\ Len(SamplesOf(fetched[1], t)) >= 20
            /\ SampleSum(fetched[1], t) > 0
C6_Witness ==
    /\ pc = "load" /\ ~IsNone(effectiveness_stats)
    /\ \E t \in ToolsIn(fetched[1]) :
         /\ Len(SamplesOf(fetched[1], t)) >= 20
         /\ SampleSum(fetched[1], t) <= 0
         /\ t \notin DOMAIN effectiveness_stats.mood_improvement_by_tool

\* the starts and completions of a challenge, counted on the fetched lists
StartsOf(challenge_id) ==
    Cardinality({i \in DOMAIN fetched[1] :
        /\ "challenge_id" \in DOMAIN fetched[1][i].properties
        /\ fetched[1][i].properties.challenge_id = challenge_id})
CompletionsOf(challenge_id) ==
    Cardinality({i \in DOMAIN fetched[2] :
        /\ "challenge_id" \in DOMAIN fetched[2][i].properties
        /\ fetched[2][i].properties.challenge_id = challenge_id})
KnownIds == {CHALLENGE_IDS[i] : i \in DOMAIN CHALLENGE_IDS}

\* a record's rate is the quotient to the nearest thousandth, and not negative
RateIsRoundedQuotient(r) ==
    /\ r.total_starts = StartsOf(r.challenge_id)
    /\ r.total_completions = CompletionsOf(r.challenge_id)
    /\ r.total_starts > 0
    /\ r.completion_rate >= 0
    /\ 2 * (1000 * r.total_completions - r.completion_rate * r.total_starts)
           <= r.total_starts
    /\ 2 * (r.completion_rate * r.total_starts - 1000 * r.total_completions)
           <= r.total_starts
RecordsOfThisRun ==
    /\ \A i \in DOMAIN computed : RateIsRoundedQuotient(computed[i])
    /\ Ids(computed) = {c \in KnownIds : StartsOf(c) > 0}

\* C7 as stated: each record's rate is completions / starts rounded to 3
\* decimals, >= 0, and > 1 whenever there are more completions than starts;
\* an id without starts has no record.
C7_RateAboveOne ==
    pc = "tool" =>
        /\ RecordsOfThisRun
        /\ \A i \in DOMAIN computed :
             computed[i].total_completions > computed[i].total_starts
                 => computed[i].completion_rate > 1000

\* C7 as amended: with more completions than starts the rate is >= 1, and
\* > 1 once completions / starts exceeds 1.0005; it is never clamped.
C7_RateNotClamped ==
    pc = "tool" =>
        /\ RecordsOfThisRun
        /\ \A i \in DOMAIN computed :
             /\ computed[i].total_completions > computed[i].total_starts
                    => computed[i].completion_rate >= 1000
             /\ 2000 * computed[i].total_completions > 2001 * computed[i].total_starts
                    => computed[i].completion_rate > 1000
C7_Witness ==
    /\ pc = "tool"
    /\ \E i \in DOMAIN computed :
         /\ computed[i].total_completions > computed[i].total_starts
         /\ computed[i].completion_rate > 1000
    /\ \E c \in KnownIds : StartsOf(c) = 0 /\ CompletionsOf(c) > 0

\* the family whose calculate_* call has just returned
JustComputed ==
    CASE pc = "tool" -> "challenge"
      [] pc = "stage" -> "tool"
      [] pc = "community" -> "stage"
      [] pc = "effectiveness" -> "community"
      [] pc = "load" -> "effectiveness"
      [] OTHER -> "none"
NullOrEmpty(family) ==
    CASE family = "challenge" -> challenge_stats = <<>>
      [] family = "tool" -> IsNone(tool_stats) /\ IsNone(category_stats)
      [] family = "stage" -> IsNone(stage_stats)
      [] family = "community" -> IsNone(community_stats)
      [] family = "effectiveness" -> IsNone(effectiveness_stats)
RunCompletes ==
    /\ pc # "crashed"
    /\ pc \notin {"done", "exited"} => ENABLED Next
    /\ pc = "done" => /\ exit_status = 0
                      /\ DOMAIN file = FamilyKeys
                      /\ file.challenge_stats = challenge_stats
                      /\ file.tool_stats = tool_stats
                      /\ file.tool_category_stats = category_stats
                      /\ file.stage_stats = stage_stats
                      /\ file.community_stats = community_stats
                      /\ file.effectiveness_stats = effectiveness_stats

KeyAbsent ==
    \/ "POSTHOG_API_KEY" \notin DOMAIN creds
    \/ creds.POSTHOG_API_KEY = ""
ProjectAbsent ==
    \/ "POSTHOG_PROJECT_ID" \notin DOMAIN creds
    \/ creds.POSTHOG_PROJECT_ID = ""
FetchesOfARun ==
    2 + 1 + 1 + (IF IsNone(community_stats) THEN 5 ELSE 6)
      + (IF IsNone(effectiveness_stats) THEN 1 ELSE 2)

\* C9: with a credential absent the process exits non-zero with no fetch, no
\* read and no write; otherwise all fetches come first, then at most one read
\* of the previous file, then exactly one write.
C9_Ordering ==
    /\ (KeyAbsent \/ ProjectAbsent) =>
           /\ pc \in {"start", "exited"}
           /\ nFetch = 0 /\ nRead = 0 /\ nWrite = 0
    /\ pc = "exited" => exit_status = 1 /\ (KeyAbsent \/ ProjectAbsent)
    /\ nRead <= 1 /\ nWrite <= 1
    /\ nFetch > 0 => ~KeyAbsent /\ ~ProjectAbsent
    /\ nRead > 0 => pc \in {"write", "done"} /\ nFetch = FetchesOfARun
    /\ nWrite > 0 => pc = "done" /\ nRead = 1
    /\ pc = "done" => nWrite = 1 /\ exit_status = 0
C9_Witness ==
    /\ pc = "exited"
    /\ ~KeyAbsent /\ ProjectAbsent
    /\ file # NoFile

\* C10: total_meditation_minutes_today is the sum of the durations of
\* today's meditation sessions, integer-divided by 60.
C10_MinutesOfTotal ==
    (pc = "effectiveness" /\ ~IsNone(community_stats)) =>
        community_stats.total_meditation_minutes_today
            = MeditationMinutesOfTotal(fetched[1])

====
